---- MODULE Spec2Model ----
(***************************************************************************)
(* wunderground_exporter (src/main.go): the /scrape handler, the upstream  *)
(* fetcher fetchWeatherData, the per-request Prometheus registry and gauge *)
(* set, as a state machine over concurrently served HTTP requests. The    *)
(* default registry that /metrics serves is part of the heap.              *)
(*                                                                         *)
(* JSON numbers are modelled in tenths (21.3 is 213), so that decoding     *)
(* into a Go int field (epoch, winddir, qcStatus) fails for a number with  *)
(* a fractional part, and float64(int) is a real conversion.               *)
(***************************************************************************)
EXTENDS Integers, Sequences, FiniteSets, TLC

\* ------------------------------------------------------------- bounds
NumRequests == 2        \* HTTP requests served, possibly concurrently
MaxObs == 2             \* longest observations array the upstream returns

\* -------------------------------------------------- program constants
StatusOK == 200
StatusBadRequest == 400
StatusInternalServerError == 500

Requests == 1..NumRequests
DefaultRegistry == 0    \* prometheus.DefaultGatherer, served by /metrics

\* ------------------------------------------------- newWeatherMetrics
\* The keys of the map newWeatherMetrics returns.
MetricKeys ==
  { "temperature", "dewpoint", "humidity", "pressure", "windspeed",
    "winddirection", "windgust", "precipitation_rate", "precipitation_total",
    "uv_index", "solar_radiation", "epoch", "visibility", "soil_temperature",
    "soil_moisture", "windchill", "elevation", "latitude", "longitude" }

\* GaugeOpts.Name of each gauge; "go_info" stands for the process collectors
\* of the default registry.
MetricName(k) ==
  CASE k = "temperature" -> "wunderground_temp"
    [] k = "dewpoint" -> "wunderground_dewpt"
    [] k = "humidity" -> "wunderground_humidity"
    [] k = "pressure" -> "wunderground_pressure"
    [] k = "windspeed" -> "wunderground_windSpeed"
    [] k = "winddirection" -> "wunderground_windDir"
    [] k = "windgust" -> "wunderground_windGust"
    [] k = "precipitation_rate" -> "wunderground_precipRate"
    [] k = "precipitation_total" -> "wunderground_precipTotal"
    [] k = "uv_index" -> "wunderground_uv"
    [] k = "solar_radiation" -> "wunderground_solarRadiation"
    [] k = "epoch" -> "wunderground_epoch"
    [] k = "visibility" -> "wunderground_visibility"
    [] k = "soil_temperature" -> "wunderground_soilTemp"
    [] k = "soil_moisture" -> "wunderground_soilMoisture"
    [] k = "windchill" -> "wunderground_windChill"
    [] k = "elevation" -> "wunderground_elevation"
    [] k = "latitude" -> "wunderground_latitude"
    [] k = "longitude" -> "wunderground_longitude"
    [] OTHER -> k

\* A map of gauge vectors is a heap object: id names the map a call of
\* newWeatherMetrics allocated (the calling request; 0 holds the process
\* collectors), keys are the map's keys, and <<id, key>> is one GaugeVec.
GoCollector == <<DefaultRegistry, "go_info">>

\* A process-wide gauge map, the same objects for every request.
GlobalWeatherMetrics(r) == [id |-> 1, keys |-> MetricKeys]

\* One key misspelt in the gauge table.
MisspeltWeatherMetrics(r) ==
  [id |-> r, keys |-> (MetricKeys \ {"windspeed"}) \cup {"wind_speed"}]

\* newWeatherMetrics(): a map from sensor key to a freshly allocated GaugeVec.
newWeatherMetrics(r) == [id |-> r, keys |-> MetricKeys]

\* ----------------------------------------------- the upstream's answers
EmptyObject == <<>>

\* A full observation as the provider sends it; every field differs, so a
\* mix-up of two fields shows. Numbers are in tenths.
FullObs(v) ==
  [ stationID |-> "KA", obsTimeUtc |-> "utc", obsTimeLocal |-> "local",
    neighborhood |-> IF v % 2 = 1 THEN "Downtown" ELSE "Harbor",
    softwareType |-> "WS-1002", country |-> "US",
    solarRadiation |-> 1000 * v + 11, lat |-> 1000 * v + 12,
    lon |-> 1000 * v + 13, epoch |-> 1000 * v + 20, uv |-> 1000 * v + 14,
    winddir |-> 1000 * v + 30, humidity |-> 1000 * v + 15, qcStatus |-> 10,
    metric |-> [ temp |-> 1000 * v + 1, heatIndex |-> 1000 * v + 2,
                 dewpt |-> 1000 * v + 3, windChill |-> 1000 * v + 4,
                 windSpeed |-> 1000 * v + 5, windGust |-> 1000 * v + 6,
                 pressure |-> 1000 * v + 7, precipRate |-> 1000 * v + 8,
                 precipTotal |-> 1000 * v + 9, elev |-> 1000 * v + 10 ] ]

\* A sparse observation: most fields are left out of the JSON object.
PartialObs ==
  [ humidity |-> 552, metric |-> [ temp |-> 213, pressure |-> 10132 ] ]

\* An observation whose wind direction is not a whole number.
FractionalDirObs == [ neighborhood |-> "Harbor", winddir |-> 2705 ]

\* An observations array of n entries; arrays of different lengths differ in
\* their first entry too.
ObsRun(n) == [i \in 1..n |-> FullObs(n + i - 1)]

\* A body that is no JSON, and a JSON document with an observations array.
GarbageBody == [valid |-> FALSE, observations |-> <<>>]
JsonBody(obs) == [valid |-> TRUE, observations |-> obs]

Bodies ==
  {GarbageBody}
    \cup {JsonBody(ObsRun(n)) : n \in 0..MaxObs}
    \cup {JsonBody(<<PartialObs>>), JsonBody(<<FractionalDirObs>>)}

\* What http.Get and the reading of the body can come to.
UpstreamOutcomes ==
  { [kind |-> "transport", status |-> 0, body |-> GarbageBody],
    [kind |-> "readfail", status |-> 503, body |-> GarbageBody],
    [kind |-> "response", status |-> 204, body |-> GarbageBody],
    [kind |-> "response", status |-> 503, body |-> JsonBody(ObsRun(1))] }
    \cup {[kind |-> "response", status |-> StatusOK, body |-> b] : b \in Bodies}

\* r.URL.Query()["station_id"]: the values given for the parameter.
Queries == {<<>>, <<"">>, <<"KA">>, <<"KB">>}

\* --------------------------------------------------- json.Unmarshal
Has(o, f) == f \in DOMAIN o
\* A string, float64 or int field of the struct after decoding: the zero
\* value when the JSON object leaves the field out.
StrField(o, f) == IF Has(o, f) THEN o[f] ELSE ""
FloatField(o, f) == IF Has(o, f) THEN o[f] ELSE 0
IntField(o, f) == IF Has(o, f) THEN o[f] \div 10 ELSE 0
\* float64(i) of a Go int, in tenths.
Float64(i) == i * 10

IntFields == {"epoch", "winddir", "qcStatus"}
\* encoding/json refuses a number with a fractional part for an int field.
IntFieldsDecode(o) == \A f \in IntFields : Has(o, f) => o[f] % 10 = 0

MetricBlock(o) == IF Has(o, "metric") THEN o["metric"] ELSE EmptyObject

\* One element of WeatherObservation.Observations after decoding.
DecodeObs(o) ==
  [ StationID |-> StrField(o, "stationID"),
    Neighborhood |-> StrField(o, "neighborhood"),
    SoftwareType |-> StrField(o, "softwareType"),
    Country |-> StrField(o, "country"),
    SolarRadiation |-> FloatField(o, "solarRadiation"),
    Lat |-> FloatField(o, "lat"),
    Lon |-> FloatField(o, "lon"),
    Epoch |-> IntField(o, "epoch"),
    UV |-> FloatField(o, "uv"),
    WindDir |-> IntField(o, "winddir"),
    Humidity |-> FloatField(o, "humidity"),
    QCStatus |-> IntField(o, "qcStatus"),
    Metric |-> [ Temp |-> FloatField(MetricBlock(o), "temp"),
                 HeatIndex |-> FloatField(MetricBlock(o), "heatIndex"),
                 DewPt |-> FloatField(MetricBlock(o), "dewpt"),
                 WindChill |-> FloatField(MetricBlock(o), "windChill"),
                 WindSpeed |-> FloatField(MetricBlock(o), "windSpeed"),
                 WindGust |-> FloatField(MetricBlock(o), "windGust"),
                 Pressure |-> FloatField(MetricBlock(o), "pressure"),
                 PrecipRate |-> FloatField(MetricBlock(o), "precipRate"),
                 PrecipTotal |-> FloatField(MetricBlock(o), "precipTotal"),
                 Elev |-> FloatField(MetricBlock(o), "elev") ] ]

\* err of json.Unmarshal(body, &weatherObservation): the whole array is
\* decoded, so a bad entry anywhere fails the call.
UnmarshalFails(body) ==
  \/ ~body.valid
  \/ \E i \in 1..Len(body.observations) : ~IntFieldsDecode(body.observations[i])

\* weatherObservation.Observations after a successful Unmarshal.
Unmarshal(body) ==
  [i \in 1..Len(body.observations) |-> DecodeObs(body.observations[i])]

\* -------------------------------------------------- fetchWeatherData
NoError == [kind |-> "nil", code |-> 0, body |-> GarbageBody]
TransportError == [kind |-> "transport", code |-> 0, body |-> GarbageBody]
ReadError == [kind |-> "read", code |-> 0, body |-> GarbageBody]
DecodeError == [kind |-> "decode", code |-> 0, body |-> GarbageBody]
\* fmt.Errorf("API request failed with status %d: %s", code, body)
StatusError(code, body) == [kind |-> "status", code |-> code, body |-> body]

\* WeatherData{}
EmptyData ==
  [ StationID |-> "", Epoch |-> 0, Latitude |-> 0, Longitude |-> 0,
    Elevation |-> 0, Neighborhood |-> "", SoftwareType |-> "",
    Country |-> "", Sensors |-> <<>> ]

\* The sensor map with temperature and dew point taken from each other's field.
SwappedSensors(obs) ==
  [ temperature |-> obs.Metric.DewPt,
    dewpoint |-> obs.Metric.Temp,
    humidity |-> obs.Humidity,
    pressure |-> obs.Metric.Pressure,
    windspeed |-> obs.Metric.WindSpeed,
    winddirection |-> Float64(obs.WindDir),
    windgust |-> obs.Metric.WindGust,
    precipitation_rate |-> obs.Metric.PrecipRate,
    precipitation_total |-> obs.Metric.PrecipTotal,
    uv_index |-> obs.UV,
    solar_radiation |-> obs.SolarRadiation ]

\* WeatherData.Sensors as the composite literal builds it.
Sensors(obs) ==
  [ temperature |-> obs.Metric.Temp,
    dewpoint |-> obs.Metric.DewPt,
    humidity |-> obs.Humidity,
    pressure |-> obs.Metric.Pressure,
    windspeed |-> obs.Metric.WindSpeed,
    winddirection |-> Float64(obs.WindDir),
    windgust |-> obs.Metric.WindGust,
    precipitation_rate |-> obs.Metric.PrecipRate,
    precipitation_total |-> obs.Metric.PrecipTotal,
    uv_index |-> obs.UV,
    solar_radiation |-> obs.SolarRadiation ]

\* data := WeatherData{...}
NewWeatherData(stationID, obs) ==
  [ StationID |-> stationID, Epoch |-> obs.Epoch, Latitude |-> obs.Lat,
    Longitude |-> obs.Lon, Elevation |-> obs.Metric.Elev,
    Neighborhood |-> obs.Neighborhood, SoftwareType |-> obs.SoftwareType,
    Country |-> obs.Country, Sensors |-> Sensors(obs) ]

\* Only statuses of 400 and above count as failures.
StatusFailsFrom400(code) == code >= 400

\* resp.StatusCode != http.StatusOK
StatusFails(code) == code # StatusOK

Returned(data, err) == [panic |-> FALSE, data |-> data, err |-> err]
\* A run-time panic unwinds fetchWeatherData and the handler: nothing returns.
Panicked == [panic |-> TRUE, data |-> EmptyData, err |-> NoError]

\* fetchWeatherData(stationID), given what the upstream does for its GET.
fetchWeatherData(stationID, up) ==
  IF up.kind = "transport" THEN Returned(EmptyData, TransportError)
  ELSE IF up.kind = "readfail" THEN Returned(EmptyData, ReadError)
  ELSE IF StatusFails(up.status)
    THEN Returned(EmptyData, StatusError(up.status, up.body))
  ELSE IF UnmarshalFails(up.body) THEN Returned(EmptyData, DecodeError)
  ELSE IF Len(Unmarshal(up.body)) = 0 THEN Panicked   \* Observations[0]
  ELSE Returned(NewWeatherData(stationID, Unmarshal(up.body)[1]), NoError)

\* ------------------------------------------ the registry and the gauges
\* Every request registers with the process-wide default registry.
UseDefaultRegistry(r) == DefaultRegistry

\* prometheus.NewRegistry(): a registry of the request's own.
NewRegistry(r) == r

\* Registry.Register refuses a collector whose metric name the registry holds.
Clashes(registered, g) == \E h \in registered : MetricName(h[2]) = MetricName(g[2])

\* gauge.WithLabelValues(lvs...).Set(value): one child per label tuple.
SetChild(children, lvs, value) ==
  {c \in children : c[1] # lvs} \cup {<<lvs, value>>}

\* The label values the handler passes to WithLabelValues.
LabelValues(stationID, data) ==
  <<stationID, data.Neighborhood, data.SoftwareType, data.Country>>

\* Every defined gauge is set, to zero when the observation has no value.
SetEveryGauge(keys, sensors) ==
  [k \in keys |-> IF k \in DOMAIN sensors THEN sensors[k] ELSE 0]

\* The loop over weatherData.Sensors: the value each found gauge is set to.
SetValues(keys, sensors) == [k \in DOMAIN sensors \cap keys |-> sensors[k]]

\* The sensors the loop finds no gauge for (ok is false): skipped silently.
Dropped(keys, sensors) == DOMAIN sensors \ keys

\* registry.Gather() as the exposition handler writes it: one sample per
\* child of every registered collector; a gauge with no child has none.
Gather(regs, gv, id) ==
  UNION {{<<MetricName(g[2]), c[1], c[2]>> : c \in gv[g[1]][g[2]]} : g \in regs[id]}

\* ------------------------------------------------------ the handlers
\* url.Values.Get: the first value, "" when the parameter is absent.
QueryGet(q) == IF Len(q) = 0 THEN "" ELSE q[1]

\* The check accepts every station id.
NeverMissing(stationID) == FALSE

\* stationID == ""
MissingStationID(stationID) == stationID = ""

NoResponse == [status |-> 0, text |-> "", err |-> NoError, samples |-> {}]
\* http.Error(w, text, code)
ErrorResponse(code, text, err) ==
  [status |-> code, text |-> text, err |-> err, samples |-> {}]
\* promhttp.HandlerFor(registry, ...).ServeHTTP(w, r)
MetricsResponse(samples) ==
  [status |-> StatusOK, text |-> "", err |-> NoError, samples |-> samples]

NoOutcome == [kind |-> "none", status |-> 0, body |-> GarbageBody]
NoResult == Returned(EmptyData, NoError)

\* A transport failure sends the handler back to fetch again.
RetryOnTransportError(res) ==
  IF res.panic THEN "aborted"
  ELSE IF res.err.kind = "transport" THEN "fetch"
  ELSE IF res.err.kind # "nil" THEN "done"
  ELSE "fetched"

\* Where the handler stands when fetchWeatherData is over: a panic ends the
\* request, err != nil ends it with the 500, otherwise the metrics are built.
AfterFetch(res) ==
  IF res.panic THEN "aborted"
  ELSE IF res.err.kind # "nil" THEN "done"
  ELSE "fetched"

VARIABLES
  pc,             \* where each request's handler stands
  query,          \* the station_id values of each request's URL
  upstream,       \* what the upstream did for each request's GET
  result,         \* what fetchWeatherData returned to each handler
  registry,       \* each handler's registry, <<>> before it is made
  weatherMetrics, \* each handler's gauge map, <<>> before it is made
  registries,     \* heap: the collectors each registry holds
  gauges,         \* heap: per gauge map and key, the gauge's children
                  \* <<label values, value>>
  dropped,        \* sensors each handler skipped for want of a gauge
  response,       \* the response each request got
  gets,           \* upstream GETs issued for each request
  renders         \* exposition renderings done for each request

vars ==
  << pc, query, upstream, result, registry, weatherMetrics, registries,
     gauges, dropped, response, gets, renders >>

StationID(r) == QueryGet(query[r])

Init ==
  /\ pc = [r \in Requests |-> "idle"]
  /\ query = [r \in Requests |-> <<>>]
  /\ upstream = [r \in Requests |-> NoOutcome]
  /\ result = [r \in Requests |-> NoResult]
  /\ registry = [r \in Requests |-> <<>>]
  /\ weatherMetrics = [r \in Requests |-> <<>>]
  /\ registries =
       [id \in {DefaultRegistry} \cup Requests |->
          IF id = DefaultRegistry THEN {GoCollector} ELSE {}]
  /\ gauges =
       [id \in {DefaultRegistry} \cup Requests |->
          IF id = DefaultRegistry THEN [k \in {"go_info"} |-> {<<<<>>, 1>>}]
          ELSE <<>>]
  /\ dropped = [r \in Requests |-> {}]
  /\ response = [r \in Requests |-> NoResponse]
  /\ gets = [r \in Requests |-> 0]
  /\ renders = [r \in Requests |-> 0]

\* A GET /scrape arrives: the handler reads station_id, answers 400 when it
\* is empty and otherwise goes on to call fetchWeatherData.
Scrape(r, q) ==
  /\ pc[r] = "idle"
  /\ query' = [query EXCEPT ![r] = q]
  /\ IF MissingStationID(QueryGet(q))
       THEN /\ response' = [response EXCEPT ![r] =
                 ErrorResponse(StatusBadRequest,
                               "station_id query parameter is required", NoError)]
            /\ pc' = [pc EXCEPT ![r] = "done"]
       ELSE /\ pc' = [pc EXCEPT ![r] = "fetch"]
            /\ UNCHANGED response
  /\ UNCHANGED << upstream, result, registry, weatherMetrics, registries,
                  gauges, dropped, gets, renders >>

\* weatherData, err := fetchWeatherData(stationID): one http.Get, whatever
\* the upstream does with it; err != nil is answered with the 500 and the
\* error's text.
Fetch(r, up) ==
  /\ pc[r] = "fetch"
  /\ gets' = [gets EXCEPT ![r] = @ + 1]
  /\ upstream' = [upstream EXCEPT ![r] = up]
  /\ LET res == fetchWeatherData(StationID(r), up)
     IN /\ result' = [result EXCEPT ![r] = res]
        /\ pc' = [pc EXCEPT ![r] = AfterFetch(res)]
        /\ response' =
             IF ~res.panic /\ res.err.kind # "nil"
               THEN [response EXCEPT ![r] =
                      ErrorResponse(StatusInternalServerError,
                                    "Failed to fetch weather data", res.err)]
               ELSE response
  /\ UNCHANGED << query, registry, weatherMetrics, registries, gauges,
                  dropped, renders >>

\* registry := prometheus.NewRegistry(); weatherMetrics := newWeatherMetrics();
\* MustRegister of every gauge, then the loop over weatherData.Sensors that
\* sets the gauges. MustRegister panics on a clash; the gauges registered
\* before it are those the map's iteration order put first.
Populate(r) ==
  LET id == NewRegistry(r)
      wm == newWeatherMetrics(r)
      new == {<<wm.id, k>> : k \in wm.keys}
      clashing == {g \in new : Clashes(registries[id], g)}
      values == SetValues(wm.keys, result[r].data.Sensors)
      lvs == LabelValues(StationID(r), result[r].data)
  IN
  /\ pc[r] = "fetched"
  /\ registry' = [registry EXCEPT ![r] = <<id>>]
  /\ weatherMetrics' = [weatherMetrics EXCEPT ![r] = wm]
  /\ IF clashing = {}
       THEN /\ registries' = [registries EXCEPT ![id] = @ \cup new]
            /\ gauges' = [gauges EXCEPT ![wm.id] =
                 [k \in wm.keys |->
                    IF k \in DOMAIN values
                      THEN SetChild({}, lvs, values[k]) ELSE {}]]
            /\ dropped' = [dropped EXCEPT ![r] =
                 Dropped(wm.keys, result[r].data.Sensors)]
            /\ pc' = [pc EXCEPT ![r] = "populated"]
       ELSE /\ \E before \in SUBSET (new \ clashing) :
                 registries' = [registries EXCEPT ![id] = @ \cup before]
            /\ gauges' = [gauges EXCEPT ![wm.id] = [k \in wm.keys |-> {}]]
            /\ pc' = [pc EXCEPT ![r] = "aborted"]
            /\ UNCHANGED dropped
  /\ UNCHANGED << query, upstream, result, response, gets, renders >>

\* promhttp.HandlerFor(registry, ...).ServeHTTP(w, r): the 200 with what the
\* handler's registry gathers.
Render(r) ==
  /\ pc[r] = "populated"
  /\ response' = [response EXCEPT ![r] =
       MetricsResponse(Gather(registries, gauges, registry[r][1]))]
  /\ renders' = [renders EXCEPT ![r] = @ + 1]
  /\ pc' = [pc EXCEPT ![r] = "done"]
  /\ UNCHANGED << query, upstream, result, registry, weatherMetrics,
                  registries, gauges, dropped, gets >>

Next ==
  \/ \E r \in Requests, q \in Queries : Scrape(r, q)
  \/ \E r \in Requests, up \in UpstreamOutcomes : Fetch(r, up)
  \/ \E r \in Requests : Populate(r)
  \/ \E r \in Requests : Render(r)

Spec == Init /\ [][Next]_vars

\* ============================================================ properties
Finished(r) == pc[r] \in {"done", "aborted"}
Answered200(r) == response[r].status = StatusOK
\* The upstream answered 200 with a body that decodes.
Decoded200(r) ==
  /\ upstream[r].kind = "response"
  /\ upstream[r].status = StatusOK
  /\ ~UnmarshalFails(upstream[r].body)
SampleNames(r) == {s[1] : s \in response[r].samples}

\* The sensor keys the fetcher fills in, and the defined keys it never fills in.
PopulatedSensorKeys ==
  { "temperature", "dewpoint", "humidity", "pressure", "windspeed",
    "winddirection", "windgust", "precipitation_rate", "precipitation_total",
    "uv_index", "solar_radiation" }
UnpopulatedKeys ==
  { "epoch", "visibility", "soil_temperature", "soil_moisture", "windchill",
    "elevation", "latitude", "longitude" }

\* The value the provider's JSON gives for a sensor key (0 when left out).
ObservedValue(o, k) ==
  CASE k = "temperature" -> FloatField(MetricBlock(o), "temp")
    [] k = "dewpoint" -> FloatField(MetricBlock(o), "dewpt")
    [] k = "humidity" -> FloatField(o, "humidity")
    [] k = "pressure" -> FloatField(MetricBlock(o), "pressure")
    [] k = "windspeed" -> FloatField(MetricBlock(o), "windSpeed")
    [] k = "winddirection" -> FloatField(o, "winddir")
    [] k = "windgust" -> FloatField(MetricBlock(o), "windGust")
    [] k = "precipitation_rate" -> FloatField(MetricBlock(o), "precipRate")
    [] k = "precipitation_total" -> FloatField(MetricBlock(o), "precipTotal")
    [] k = "uv_index" -> FloatField(o, "uv")
    [] k = "solar_radiation" -> FloatField(o, "solarRadiation")

\* C1: an upstream 200 whose JSON decodes to an empty observations array
\* makes fetchWeatherData return a NoObservationError, never a panic on
\* Observations[0].
C1_EmptyObservationsReturnError ==
  \A r \in Requests :
    (Decoded200(r) /\ Len(upstream[r].body.observations) = 0) =>
      (~result[r].panic /\ result[r].err.kind = "noobservation")

\* C2: whatever the interleaving, a 200 response holds only samples built
\* from its own request's station id and its own fetched observation, and
\* the registry and gauge map of a request are no other request's and not
\* the default registry.
C2_NoCrossContamination ==
  \A r \in Requests :
    registry[r] # <<>> =>
      /\ registry[r][1] # DefaultRegistry
      /\ \A q \in Requests \ {r} :
           registry[q] # <<>> =>
             /\ registry[q][1] # registry[r][1]
             /\ weatherMetrics[q].id # weatherMetrics[r].id
      /\ Answered200(r) =>
           response[r].samples \subseteq
             { <<MetricName(k), LabelValues(StationID(r), result[r].data),
                 result[r].data.Sensors[k]>> :
               k \in DOMAIN result[r].data.Sensors }

\* C2 witness: a request answered 200 while another request, for another
\* station and with another upstream answer, has its gauges set.
C2_Witness ==
  \E r, q \in Requests :
    /\ Answered200(r) /\ pc[q] = "populated"
    /\ StationID(r) # StationID(q)
    /\ upstream[r] # upstream[q]

\* C3: a request whose station_id is missing or empty is answered 400 and no
\* upstream GET is ever issued for it.
C3_MissingStationIDNoFetch ==
  \A r \in Requests :
    (pc[r] # "idle" /\ StationID(r) = "") =>
      /\ pc[r] = "done"
      /\ response[r].status = StatusBadRequest
      /\ gets[r] = 0 /\ upstream[r] = NoOutcome

\* C3 witness: one request without the parameter and one with an empty
\* value, both answered 400.
C3_Witness ==
  \E r, q \in Requests :
    /\ query[r] = <<>> /\ response[r].status = StatusBadRequest
    /\ query[q] = <<"">> /\ response[q].status = StatusBadRequest

\* C4: an upstream response whose status is not 200 makes fetchWeatherData
\* return the status error carrying that status and the raw body, whether or
\* not the body is JSON, and the handler answers 500 with it.
C4_UpstreamStatusError ==
  \A r \in Requests :
    (upstream[r].kind = "response" /\ upstream[r].status # StatusOK) =>
      /\ ~result[r].panic
      /\ result[r].err = StatusError(upstream[r].status, upstream[r].body)
      /\ response[r].status = StatusInternalServerError
      /\ response[r].err = result[r].err

\* C4 witness: a non-200 answer whose body is decodable JSON, answered 500.
C4_Witness ==
  \E r \in Requests :
    /\ upstream[r].kind = "response" /\ upstream[r].status # StatusOK
    /\ ~UnmarshalFails(upstream[r].body)
    /\ Len(upstream[r].body.observations) = 1
    /\ response[r].status = StatusInternalServerError

\* C5: a request for a non-empty station id whose upstream answer is a 200
\* with exactly one observation ends with a 200 holding, for each of the 11
\* populated sensor keys, a sample with the observation's value for the key,
\* labelled with the request's station id.
C5_AllPopulatedSensorsRendered ==
  /\ Cardinality(PopulatedSensorKeys) = 11
  /\ \A r \in Requests :
       (Finished(r) /\ Decoded200(r)
          /\ Len(upstream[r].body.observations) = 1) =>
         LET o == upstream[r].body.observations[1]
         IN /\ Answered200(r)
            /\ \A k \in PopulatedSensorKeys :
                 << MetricName(k),
                    << StationID(r), StrField(o, "neighborhood"),
                       StrField(o, "softwareType"), StrField(o, "country") >>,
                    ObservedValue(o, k) >> \in response[r].samples
            /\ \A s \in response[r].samples : s[2][1] = StationID(r)

\* C5 witness: a 200 for station KB built from one observation that the
\* upstream reports under station KA.
C5_Witness ==
  \E r \in Requests :
    /\ Answered200(r) /\ StationID(r) = "KB"
    /\ Len(upstream[r].body.observations) = 1
    /\ StrField(upstream[r].body.observations[1], "stationID") = "KA"

\* C6: every finished /scrape request has exactly one of three outcomes: 400
\* for a missing station id, 500 with the fetch error, or 200 with the
\* rendered metrics; none ends without a response.
C6_ThreeOutcomes ==
  \A r \in Requests :
    Finished(r) =>
      \/ response[r].status = StatusBadRequest /\ StationID(r) = ""
      \/ /\ response[r].status = StatusInternalServerError
         /\ response[r].err.kind # "nil"
      \/ /\ Answered200(r)
         /\ SampleNames(r) = {MetricName(k) : k \in PopulatedSensorKeys}

\* C7: two finished requests for the same station that got the same upstream
\* answer end the same way with the same samples, and each finished request
\* for a station issued its own GET.
C7_Idempotent ==
  /\ \A r, q \in Requests :
       (Finished(r) /\ Finished(q) /\ gets[r] > 0 /\ gets[q] > 0
          /\ StationID(r) = StationID(q) /\ upstream[r] = upstream[q]) =>
         (pc[r] = pc[q] /\ response[r] = response[q])
  /\ \A r \in Requests :
       (Finished(r) /\ StationID(r) # "") =>
         (gets[r] = 1 /\ upstream[r] # NoOutcome)

\* C7 witness: two requests for the same station, the same upstream answer,
\* both answered 200.
C7_Witness ==
  \E r, q \in Requests :
    /\ r # q /\ Answered200(r) /\ Answered200(q)
    /\ StationID(r) = StationID(q) /\ upstream[r] = upstream[q]

C9_UnsetGaugesAbsent ==
  \A r \in Requests :
    Answered200(r) =>
      /\ SampleNames(r) =
           {MetricName(k) : k \in DOMAIN result[r].data.Sensors}
      /\ \A k \in UnpopulatedKeys :
           /\ <<weatherMetrics[r].id, k>> \in registries[registry[r][1]]
           /\ MetricName(k) \notin SampleNames(r)

\* C9 witness: a 200 built from an observation that leaves most fields out.
C9_Witness ==
  \E r \in Requests :
    /\ Answered200(r)
    /\ upstream[r].body = JsonBody(<<PartialObs>>)

\* C10 as stated: every request's gauge map defines exactly 18 keys, the
\* keys of Sensors are among them and no sensor is dropped.
C10_EighteenKeys ==
  \A r \in Requests :
    pc[r] \in {"populated", "done"} /\ registry[r] # <<>> =>
      /\ Cardinality(weatherMetrics[r].keys) = 18
      /\ DOMAIN result[r].data.Sensors \subseteq weatherMetrics[r].keys
      /\ dropped[r] = {}

\* C10 amended: every request's gauge map defines exactly 19 keys, the 11
\* keys of Sensors are among them and no sensor is dropped.
C10_NineteenKeys ==
  \A r \in Requests :
    pc[r] \in {"populated", "done"} /\ registry[r] # <<>> =>
      /\ Cardinality(weatherMetrics[r].keys) = 19
      /\ Cardinality(DOMAIN result[r].data.Sensors) = 11
      /\ DOMAIN result[r].data.Sensors \subseteq weatherMetrics[r].keys
      /\ dropped[r] = {}

\* C10 witness: a request whose gauges have been set from a fetched
\* observation.
C10_Witness ==
  \E r \in Requests :
    pc[r] = "populated" /\ DOMAIN result[r].data.Sensors # {}

====
